---- MODULE Spec2Model ----
(***************************************************************************)
(* Model of robusta_krr's ResourcePatcher (resource_patch.py) and          *)
(* DummyStrategy (dummy.py).                                               *)
(*                                                                         *)
(* A call is one invocation of a public or internal operation.  The        *)
(* asyncio event loop runs a coroutine without interruption up to its      *)
(* await, so a call has three steps: the code up to                        *)
(* `await loop.run_in_executor(...)`, the worker thread that performs the  *)
(* blocking control-plane request, and the code after the await.           *)
(***************************************************************************)
EXTENDS Integers, Sequences, FiniteSets, TLC

VARIABLES pc, frame, log, apiCalls

vars == <<pc, frame, log, apiCalls>>

(* ------------------------------ bounds -------------------------------- *)

\* number of apply coroutines in flight on one ResourcePatcher
NumCalls == 2
\* longest container list of a workload
MaxContainers == 2

Procs == 1..NumCalls
\* the caller of the sequential specification
Main == CHOOSE p \in Procs : \A q \in Procs : p <= q

(* --------------------------- data model ------------------------------- *)

Kinds ==
  {"Deployment", "StatefulSet", "DaemonSet", "Job", "CronJob",
   "Rollout", "DeploymentConfig", "StrimziPodSet", "Unknown"}

\* ResourceType.CPU.value, ResourceType.Memory.value
ResourceTypes == {"cpu", "memory"}

\* an allocation entry: a number, None, or the "?" marker
None == [tag |-> "none", v |-> 0]
UnknownMarker == [tag |-> "?", v |-> 0]
NaN == [tag |-> "nan", v |-> 0]
Num(n) == [tag |-> "num", v |-> n]

\* CPU quantities are counted in 1/10000 core, memory quantities in bytes
UnitsPerCore == 10 * 1000

ContainerNames == {"app", "sidecar", "proxy"}
WorkloadNames == {"web", "api"}
Namespace == "prod"

RECURSIVE Distinct(_)
Distinct(s) ==
  IF Len(s) <= 1 THEN TRUE
  ELSE /\ \A i \in 2..Len(s) : s[i] # s[1]
       /\ Distinct(Tail(s))

\* container lists of a pod template: non-empty, names unique
ContainerLists ==
  { s \in UNION { [1..n -> ContainerNames] : n \in 1..MaxContainers } : Distinct(s) }

\* _api_resource: absent (None), a fetched object, or an object whose
\* container list cannot be read (attribute access raises)
Handles == {"absent", "ok", "malformed"}

NoAllocation == [cpu |-> None, memory |-> None]

\* K8sObjectData.  containers is the container list of the workload's pod
\* template; handle says what _api_resource holds of it.
K8sObject(kind, name, handle, containers, requests, limits) ==
  [kind |-> kind, namespace |-> Namespace, name |-> name, container |-> "app",
   handle |-> handle, containers |-> containers,
   requests |-> requests, limits |-> limits]

NoObject == K8sObject("Unknown", "web", "absent", <<"app">>, NoAllocation, NoAllocation)

(* ------------------------------ logging ------------------------------- *)

Line(level, event) == [level |-> level, event |-> event]

(* ----------------------- resource_units.format ------------------------ *)

Ki == 2^10
Mi == 2^20
Gi == 2^30

\* largest binary unit that divides the byte count
FormatResource(b) ==
  IF b = 0 THEN "0"
  ELSE IF b % Gi = 0 THEN ToString(b \div Gi) \o "Gi"
  ELSE IF b % Mi = 0 THEN ToString(b \div Mi) \o "Mi"
  ELSE IF b % Ki = 0 THEN ToString(b \div Ki) \o "Ki"
  ELSE ToString(b)

(* --------------------------- ResourcePatcher -------------------------- *)

\* f"{int(value * 1000)}m" on a float number of cores
FormatCpu(v) == ToString((v * 1000) \div UnitsPerCore) \o "m"

\* the two formatting statements of apply_resource_recommendation, in
\* order: the recommended value, then the current value.  None * 1000 is a
\* TypeError, int("?" * 1000) a ValueError; memRaises says whether
\* format_resource raises on a value that is not a number.
FormatValues(rtype, rec, cur, memRaises) ==
  IF rtype = "cpu"
  THEN IF cur.tag = "none"
         THEN [raised |-> "TypeError", value |-> FormatCpu(rec), current |-> ""]
       ELSE IF cur.tag = "?"
         THEN [raised |-> "ValueError", value |-> FormatCpu(rec), current |-> ""]
       ELSE [raised |-> "none", value |-> FormatCpu(rec), current |-> FormatCpu(cur.v)]
  ELSE IF cur.tag # "num"
         THEN IF memRaises
                THEN [raised |-> "TypeError", value |-> FormatResource(rec), current |-> ""]
                ELSE [raised |-> "none", value |-> FormatResource(rec), current |-> cur.tag]
       ELSE [raised |-> "none", value |-> FormatResource(rec),
             current |-> FormatResource(cur.v)]

\* position (0-based) of the first container with the given name, -1 if none
IndexOf(containers, name) ==
  IF \E i \in 1..Len(containers) : containers[i] = name
  THEN (CHOOSE i \in 1..Len(containers) :
          /\ containers[i] = name
          /\ \A j \in 1..(i - 1) : containers[j] # name) - 1
  ELSE -1

GetContainerIndexOffByOne(obj) ==
  IF obj.handle = "absent"
    THEN [index |-> 0, log |-> <<Line("error", "no_api_resource")>>]
  ELSE IF obj.kind \notin {"CronJob", "Deployment", "StatefulSet", "DaemonSet", "Job"}
    THEN [index |-> 0, log |-> <<Line("warning", "unsupported_kind")>>]
  ELSE IF obj.handle = "malformed"
    THEN [index |-> 0, log |-> <<Line("error", "index_exception")>>]
  ELSE IF IndexOf(obj.containers, obj.container) >= 0
    THEN [index |-> IndexOf(obj.containers, obj.container) + 1, log |-> <<>>]
  ELSE [index |-> 0, log |-> <<Line("warning", "container_not_found")>>]

\* _get_container_index: the returned index and the lines it logs
GetContainerIndex(obj) ==
  IF obj.handle = "absent"
    THEN [index |-> 0, log |-> <<Line("error", "no_api_resource")>>]
  ELSE IF obj.kind \notin {"CronJob", "Deployment", "StatefulSet", "DaemonSet", "Job"}
    THEN [index |-> 0, log |-> <<Line("warning", "unsupported_kind")>>]
  ELSE IF obj.handle = "malformed"
    THEN [index |-> 0, log |-> <<Line("error", "index_exception")>>]
  ELSE IF IndexOf(obj.containers, obj.container) >= 0
    THEN [index |-> IndexOf(obj.containers, obj.container), log |-> <<>>]
  ELSE [index |-> 0, log |-> <<Line("warning", "container_not_found")>>]

EligibleWithCronJob(kind) == kind \in {"Deployment", "CronJob"}

\* the kind gate of apply_resource_recommendation
Eligible(kind) == kind = "Deployment"

PatchPath(kind, index, rtype) ==
  IF kind = "CronJob"
  THEN "/spec/jobTemplate/spec/template/spec/containers/" \o ToString(index)
         \o "/resources/requests/" \o rtype
  ELSE "/spec/template/spec/containers/" \o ToString(index)
         \o "/resources/requests/" \o rtype

CatchesApiExceptionOnly(exc) == exc = "ApiException"

\* `except Exception` of apply_resource_recommendation
ApplyCatches(exc) == exc \in {"TypeError", "ValueError", "ApiException", "Exception"}

Typed(api, method) ==
  [api |-> api, method |-> method, group |-> "", version |-> "", plural |-> ""]
Custom(group, version, plural) ==
  [api |-> "custom_objects", method |-> "patch_namespaced_custom_object",
   group |-> group, version |-> version, plural |-> plural]
NoEndpoint == Typed("none", "none")

EndpointDefaultingToDeployment(kind) ==
  IF kind = "StatefulSet" THEN Typed("apps_v1", "patch_namespaced_stateful_set")
  ELSE IF kind = "DaemonSet" THEN Typed("apps_v1", "patch_namespaced_daemon_set")
  ELSE IF kind = "Job" THEN Typed("batch_v1", "patch_namespaced_job")
  ELSE IF kind = "CronJob" THEN Typed("batch_v1", "patch_namespaced_cron_job")
  ELSE IF kind = "Rollout" THEN Custom("argoproj.io", "v1alpha1", "rollouts")
  ELSE IF kind = "DeploymentConfig" THEN Custom("apps.openshift.io", "v1", "deploymentconfigs")
  ELSE IF kind = "StrimziPodSet" THEN Custom("core.strimzi.io", "v1beta2", "strimzipodsets")
  ELSE Typed("apps_v1", "patch_namespaced_deployment")

\* the if/elif chain of _patch_workload: the client call a kind is routed to
Endpoint(kind) ==
  IF kind = "Deployment" THEN Typed("apps_v1", "patch_namespaced_deployment")
  ELSE IF kind = "StatefulSet" THEN Typed("apps_v1", "patch_namespaced_stateful_set")
  ELSE IF kind = "DaemonSet" THEN Typed("apps_v1", "patch_namespaced_daemon_set")
  ELSE IF kind = "Job" THEN Typed("batch_v1", "patch_namespaced_job")
  ELSE IF kind = "CronJob" THEN Typed("batch_v1", "patch_namespaced_cron_job")
  ELSE IF kind = "Rollout" THEN Custom("argoproj.io", "v1alpha1", "rollouts")
  ELSE IF kind = "DeploymentConfig" THEN Custom("apps.openshift.io", "v1", "deploymentconfigs")
  ELSE IF kind = "StrimziPodSet" THEN Custom("core.strimzi.io", "v1beta2", "strimzipodsets")
  ELSE NoEndpoint

PatchReturnsTrueAlways(outcome) ==
  [result |-> "True", log |-> <<>>]

\* the return statement and the two except clauses of _patch_workload
PatchReturn(outcome) ==
  IF outcome = "ok" THEN [result |-> "True", log |-> <<>>]
  ELSE IF outcome = "ApiException"
    THEN [result |-> "False", log |-> <<Line("error", "api_error")>>]
  ELSE [result |-> "False", log |-> <<Line("error", "unexpected_error")>>]

SharedBody(fr, p) ==
  IF \E q \in DOMAIN fr : q # p /\ fr[q].patch # <<>>
  THEN fr[CHOOSE q \in DOMAIN fr : q # p /\ fr[q].patch # <<>>].patch
  ELSE fr[p].patch

\* body=patch: the lambda handed to the executor closes over the
\* coroutine's own local
RequestBody(fr, p) == fr[p].patch

(* ----------------------------- DummyStrategy --------------------------- *)

UsableOrZero(cur) == cur.tag = "num" /\ cur.v >= 0

\* current is not None and current != "?" and current > 0
Usable(cur) == cur.tag = "num" /\ cur.v > 0

\* float(current) * (1 - reduction_percentage / 100), in hundredths of the
\* unit of current
Reduce(cur, pct) == Num(cur.v * (100 - pct))

\* ResourceRecommendation.undefined(info=...)
UndefinedRecommendation(info) == [request |-> NaN, limit |-> NaN, info |-> info]

\* __calculate_cpu_recommendation / __calculate_memory_recommendation
CalculateRecommendation(obj, rtype, pct) ==
  LET recommended_request ==
        IF Usable(obj.requests[rtype]) THEN Reduce(obj.requests[rtype], pct) ELSE None
      recommended_limit ==
        IF Usable(obj.limits[rtype]) THEN Reduce(obj.limits[rtype], pct) ELSE None
  IN IF recommended_request = None /\ recommended_limit = None
     THEN UndefinedRecommendation("no_current_allocation")
     ELSE [request |-> recommended_request, limit |-> recommended_limit,
           info |-> "reduced"]

NoRecommendations == [cpu |-> UndefinedRecommendation(""), memory |-> UndefinedRecommendation("")]

(* ------------------------------- state -------------------------------- *)

IdleFrame ==
  [op |-> "none", obj |-> NoObject, rtype |-> "cpu", rec |-> 0, dry |-> FALSE,
   memRaises |-> FALSE, pct |-> 0, index |-> -1, patch |-> <<>>,
   outcome |-> "none", result |-> "pending", raised |-> "none",
   recs |-> NoRecommendations]

Init ==
  /\ pc = [p \in Procs |-> "idle"]
  /\ frame = [p \in Procs |-> IdleFrame]
  /\ log = [p \in Procs |-> <<>>]
  /\ apiCalls = <<>>

(* ------------------------------ inputs -------------------------------- *)

CpuRequests == {None, UnknownMarker, Num(5000)}
MemoryRequests == {None, UnknownMarker, Num(128 * Mi)}

\* objects handed to the patcher: it reads the kind, the identity, the
\* handle and allocations.requests
PatcherObjects ==
  { K8sObject(k, n, h, cs, [cpu |-> c, memory |-> m], NoAllocation) :
      k \in Kinds, n \in WorkloadNames, h \in Handles, cs \in ContainerLists,
      c \in CpuRequests, m \in MemoryRequests }

\* recommended values: 0.45 and 0.0005 cores; 96Mi and 1000 bytes
Recommended(rtype) == IF rtype = "cpu" THEN {4500, 5} ELSE {96 * Mi, 1000}

\* patch documents handed to _patch_workload directly
PatchDocuments ==
  { <<[op |-> "replace", path |-> PatchPath(k, 0, "cpu"), value |-> "450m"]>> :
      k \in {"Deployment", "CronJob"} }

DispatchObjects ==
  { K8sObject(k, n, "absent", <<"app">>, NoAllocation, NoAllocation) :
      k \in Kinds, n \in WorkloadNames }

\* objects handed to the strategy: it reads allocations only
StrategyValues == {None, UnknownMarker, Num(0), Num(2000)}
StrategyObjects ==
  { K8sObject("Deployment", "web", "ok", <<"app">>, rq, lm) :
      rq \in [ResourceTypes -> StrategyValues], lm \in [ResourceTypes -> StrategyValues] }

\* reduction_percentage: gt=0, le=100
Percentages == {10, 50, 100}

(* ------------------------------ actions ------------------------------- *)

Returned(p, fr, lines) ==
  /\ pc' = [pc EXCEPT ![p] = "done"]
  /\ frame' = [frame EXCEPT ![p] = fr]
  /\ log' = [log EXCEPT ![p] = log[p] \o lines]

Suspended(p, fr, lines) ==
  /\ pc' = [pc EXCEPT ![p] = "awaiting"]
  /\ frame' = [frame EXCEPT ![p] = fr]
  /\ log' = [log EXCEPT ![p] = log[p] \o lines]

\* apply_resource_recommendation, from its entry to the await inside
\* _patch_workload or to its return, whichever comes first
ApplyCall(p, obj, rtype, rec, dry, memRaises) ==
  /\ pc[p] = "idle"
  /\ LET fr0 == [IdleFrame EXCEPT !.op = "apply", !.obj = obj, !.rtype = rtype,
                                 !.rec = rec, !.dry = dry, !.memRaises = memRaises]
         loc == GetContainerIndex(obj)
         fr1 == [fr0 EXCEPT !.index = loc.index]
         fmt == FormatValues(rtype, rec, obj.requests[rtype], memRaises)
         patch == <<[op |-> "replace",
                     path |-> PatchPath(obj.kind, loc.index, rtype),
                     value |-> fmt.value]>>
         fr2 == [fr1 EXCEPT !.patch = patch]
         applying == loc.log \o <<Line("info", "applying")>>
     IN IF ~Eligible(obj.kind)
          THEN Returned(p, [fr0 EXCEPT !.result = "False"], <<Line("info", "skipping")>>)
        ELSE IF fmt.raised # "none"
          THEN IF ApplyCatches(fmt.raised)
                 THEN Returned(p, [fr1 EXCEPT !.result = "False"],
                               loc.log \o <<Line("error", "apply_exception")>>)
                 ELSE Returned(p, [fr1 EXCEPT !.raised = fmt.raised], loc.log)
        ELSE IF dry
          THEN Returned(p, [fr2 EXCEPT !.result = "True"], applying)
        ELSE IF Endpoint(obj.kind) = NoEndpoint
          THEN Returned(p, [fr2 EXCEPT !.result = "False"],
                        applying \o <<Line("error", "unsupported_patch_kind"),
                                      Line("error", "apply_failed")>>)
        ELSE Suspended(p, fr2, applying)
  /\ UNCHANGED apiCalls

\* _patch_workload called on its own, from its entry to the await or to the
\* return of the else branch
PatchCall(p, obj, patch) ==
  /\ pc[p] = "idle"
  /\ LET fr0 == [IdleFrame EXCEPT !.op = "patch", !.obj = obj, !.patch = patch]
     IN IF Endpoint(obj.kind) = NoEndpoint
          THEN Returned(p, [fr0 EXCEPT !.result = "False"],
                        <<Line("error", "unsupported_patch_kind")>>)
          ELSE Suspended(p, fr0, <<>>)
  /\ UNCHANGED apiCalls

\* the executor's worker thread runs the lambda: one request reaches the
\* control plane, which accepts it, rejects it (ApiException) or fails
\* otherwise
ExecutorRun(p, outcome) ==
  /\ pc[p] = "awaiting"
  /\ apiCalls' = Append(apiCalls,
                        [by |-> p, endpoint |-> Endpoint(frame[p].obj.kind),
                         namespace |-> frame[p].obj.namespace,
                         name |-> frame[p].obj.name,
                         body |-> RequestBody(frame, p)])
  /\ frame' = [frame EXCEPT ![p].outcome = outcome]
  /\ pc' = [pc EXCEPT ![p] = "completed"]
  /\ UNCHANGED log

\* the await returns or raises: _patch_workload returns, and so does
\* apply_resource_recommendation when it is the caller
Resume(p) ==
  /\ pc[p] = "completed"
  /\ LET ret == PatchReturn(frame[p].outcome)
         fr == [frame[p] EXCEPT !.result = ret.result]
     IN IF frame[p].op = "patch"
          THEN Returned(p, fr, ret.log)
        ELSE IF ret.result = "True"
          THEN Returned(p, fr, ret.log \o <<Line("info", "apply_succeeded")>>)
        ELSE Returned(p, fr, ret.log \o <<Line("error", "apply_failed")>>)
  /\ UNCHANGED apiCalls

\* _get_container_index called on its own
LocateCall(p, obj) ==
  /\ pc[p] = "idle"
  /\ LET loc == GetContainerIndex(obj)
     IN Returned(p, [IdleFrame EXCEPT !.op = "locate", !.obj = obj, !.index = loc.index],
                 loc.log)
  /\ UNCHANGED apiCalls

\* DummyStrategy.run
RunCall(p, obj, pct) ==
  /\ pc[p] = "idle"
  /\ Returned(p, [IdleFrame EXCEPT !.op = "run", !.obj = obj, !.pct = pct,
                    !.recs = [rt \in ResourceTypes |-> CalculateRecommendation(obj, rt, pct)]],
              <<>>)
  /\ UNCHANGED apiCalls

Outcomes == {"ok", "ApiException", "Exception"}

ApplyInput(obj, rtype, rec, dry, memRaises) ==
  [obj |-> obj, rtype |-> rtype, rec |-> rec, dry |-> dry, memRaises |-> memRaises]

\* a caller invokes apply_resource_recommendation
Apply(p) ==
  /\ pc[p] = "idle"
  /\ \E obj \in PatcherObjects, rtype \in ResourceTypes, dry \in BOOLEAN, memRaises \in BOOLEAN :
       \E rec \in Recommended(rtype) : ApplyCall(p, obj, rtype, rec, dry, memRaises)

\* a caller invokes _patch_workload
Patch(p) ==
  /\ pc[p] = "idle"
  /\ \E obj \in DispatchObjects, patch \in PatchDocuments : PatchCall(p, obj, patch)

\* a caller invokes _get_container_index
Locate(p) ==
  /\ pc[p] = "idle"
  /\ \E obj \in PatcherObjects : LocateCall(p, obj)

\* a caller invokes DummyStrategy.run
Run(p) ==
  /\ pc[p] = "idle"
  /\ \E obj \in StrategyObjects, pct \in Percentages : RunCall(p, obj, pct)

\* the worker pool serves a pending request
Execute(p) == \E outcome \in Outcomes : ExecutorRun(p, outcome)

\* one caller, one operation at a time, every input
Next ==
  \/ Apply(Main)
  \/ Patch(Main)
  \/ Locate(Main)
  \/ Run(Main)
  \/ Execute(Main)
  \/ Resume(Main)

Spec == Init /\ [][Next]_vars

(* ----------------------- concurrent applies --------------------------- *)

Web == K8sObject("Deployment", "web", "ok", <<"app">>,
                 [cpu |-> Num(5000), memory |-> Num(128 * Mi)], NoAllocation)
Api == K8sObject("Deployment", "api", "ok", <<"sidecar", "app">>,
                 [cpu |-> Num(5000), memory |-> None], NoAllocation)
Nightly == K8sObject("CronJob", "web", "ok", <<"app">>,
                     [cpu |-> Num(5000), memory |-> Num(128 * Mi)], NoAllocation)

\* the batch of applies issued with asyncio.gather on one ResourcePatcher
BatchInputs ==
  { ApplyInput(Web, "cpu", 4500, FALSE, TRUE),
    ApplyInput(Web, "memory", 96 * Mi, FALSE, TRUE),
    ApplyInput(Web, "cpu", 4500, TRUE, TRUE),
    ApplyInput(Api, "cpu", 5, FALSE, TRUE),
    ApplyInput(Api, "memory", 1000, FALSE, TRUE),
    ApplyInput(Api, "memory", 1000, FALSE, FALSE),
    ApplyInput(Nightly, "cpu", 4500, FALSE, TRUE) }

\* one coroutine of the batch starts
ApplyBatch(p) ==
  /\ pc[p] = "idle"
  /\ \E in \in BatchInputs : ApplyCall(p, in.obj, in.rtype, in.rec, in.dry, in.memRaises)

NextBatch ==
  \E p \in Procs :
    \/ ApplyBatch(p)
    \/ Execute(p)
    \/ Resume(p)

SpecBatch == Init /\ [][NextBatch]_vars

(* ------------------------------ claims -------------------------------- *)

\* the control-plane requests a call has issued
CallsBy(p) == SelectSeq(apiCalls, LAMBDA c : c.by = p)

AppliedDone(p) == frame[p].op = "apply" /\ pc[p] = "done"

\* C1: an apply on a workload whose kind is not Deployment returns False,
\* whatever the resource type, the recommended value and the dry-run flag,
\* and issues no control-plane request.
C1_NonDeploymentSkipped ==
  \A p \in Procs :
    (frame[p].op = "apply" /\ frame[p].obj.kind # "Deployment") =>
      /\ pc[p] = "done"
      /\ frame[p].result = "False"
      /\ frame[p].raised = "none"
      /\ CallsBy(p) = <<>>

C1_Witness ==
  \E p \in Procs :
    /\ AppliedDone(p)
    /\ frame[p].obj.kind = "CronJob"
    /\ frame[p].dry
    /\ frame[p].obj.requests["cpu"].tag = "num"
    /\ frame[p].result = "False"

\* C2: an apply with dry_run=True issues no control-plane request and, on a
\* Deployment, returns True for every resource type and every state of the
\* current request (a number, None or "?").
C2_DryRunReturnsTrue ==
  \A p \in Procs :
    (frame[p].op = "apply" /\ frame[p].dry) =>
      /\ CallsBy(p) = <<>>
      /\ (pc[p] = "done" /\ frame[p].obj.kind = "Deployment") => frame[p].result = "True"

C4_ExactlyOnePatch ==
  \A p \in Procs :
    (/\ AppliedDone(p)
     /\ frame[p].obj.kind = "Deployment"
     /\ ~frame[p].dry
     /\ frame[p].obj.handle = "ok"
     /\ IndexOf(frame[p].obj.containers, frame[p].obj.container) >= 0) =>
      /\ Len(CallsBy(p)) = 1
      /\ CallsBy(p)[1].endpoint.method = "patch_namespaced_deployment"
      /\ CallsBy(p)[1].name = frame[p].obj.name
      /\ CallsBy(p)[1].body =
           <<[op |-> "replace",
              path |-> "/spec/template/spec/containers/"
                         \o ToString(IndexOf(frame[p].obj.containers, frame[p].obj.container))
                         \o "/resources/requests/" \o frame[p].rtype,
              value |-> IF frame[p].rtype = "cpu" THEN FormatCpu(frame[p].rec)
                        ELSE FormatResource(frame[p].rec)]>>
      /\ frame[p].result = "True" <=> frame[p].outcome = "ok"

\* C5: a patch an apply submits for a workload that has a container with
\* the target container name addresses that container, at its position in
\* the workload's container list, and no other container.
C5_PatchesTargetContainer ==
  \A n \in 1..Len(apiCalls) :
    LET c == apiCalls[n]
        f == frame[c.by]
    IN (f.op = "apply" /\ IndexOf(f.obj.containers, f.obj.container) >= 0) =>
         /\ Len(c.body) = 1
         /\ c.body[1].path =
              "/spec/template/spec/containers/"
                \o ToString(IndexOf(f.obj.containers, f.obj.container))
                \o "/resources/requests/" \o f.rtype

LocatedDone(p) == frame[p].op = "locate" /\ pc[p] = "done"

HasLine(p, level) == \E n \in 1..Len(log[p]) : log[p][n].level = level

ListedKinds == {"CronJob", "Deployment", "StatefulSet", "DaemonSet", "Job"}

PatchedDirectly(p) == frame[p].op = "patch"

\* C7: _patch_workload on a kind outside the eight it routes logs an error
\* and returns False, without raising and without any control-plane request.
C7_UnrecognizedKindRejected ==
  \A p \in Procs :
    (/\ PatchedDirectly(p)
     /\ frame[p].obj.kind \notin
          {"Deployment", "StatefulSet", "DaemonSet", "Job", "CronJob",
           "Rollout", "DeploymentConfig", "StrimziPodSet"}) =>
      /\ pc[p] = "done"
      /\ frame[p].result = "False"
      /\ frame[p].raised = "none"
      /\ HasLine(p, "error")
      /\ CallsBy(p) = <<>>

C7_Witness ==
  \E p \in Procs :
    /\ PatchedDirectly(p)
    /\ frame[p].obj.kind = "Unknown"
    /\ pc[p] = "done"
    /\ frame[p].result = "False"

\* C8: DummyStrategy.run returns the undefined recommendation, not a
\* number, for a resource type whose current request and current limit are
\* both None, "?" or <= 0; otherwise the request and the limit are each
\* current * (1 - percentage / 100) when their own current value is a
\* number > 0, and None when it is not.
C8_UndefinedOrIndependent ==
  \A p \in Procs :
    (frame[p].op = "run" /\ pc[p] = "done") =>
      \A rt \in ResourceTypes :
        LET rq == frame[p].obj.requests[rt]
            lm == frame[p].obj.limits[rt]
            rqSet == rq.tag = "num" /\ rq.v > 0
            lmSet == lm.tag = "num" /\ lm.v > 0
            r == frame[p].recs[rt]
        IN IF ~rqSet /\ ~lmSet
           THEN r.request.tag = "nan" /\ r.limit.tag = "nan"
           ELSE /\ r.request = IF rqSet
                                 THEN [tag |-> "num", v |-> rq.v * (100 - frame[p].pct)]
                                 ELSE [tag |-> "none", v |-> 0]
                /\ r.limit = IF lmSet
                               THEN [tag |-> "num", v |-> lm.v * (100 - frame[p].pct)]
                               ELSE [tag |-> "none", v |-> 0]

C8_Witness ==
  \E p \in Procs :
    /\ frame[p].op = "run" /\ pc[p] = "done"
    /\ frame[p].obj.requests["cpu"] = Num(0)
    /\ frame[p].obj.limits["cpu"] = UnknownMarker
    /\ frame[p].recs["cpu"].request.tag = "nan"
    /\ frame[p].obj.requests["memory"] = Num(2000)
    /\ frame[p].obj.limits["memory"] = None
    /\ frame[p].pct = 10
    /\ frame[p].recs["memory"].request = Num(180000)
    /\ frame[p].recs["memory"].limit = None

\* the client call of every routed kind: api object, method, and for custom
\* resources the group, version and plural
Route ==
  [Deployment |-> <<"apps_v1", "patch_namespaced_deployment", "", "", "">>,
   StatefulSet |-> <<"apps_v1", "patch_namespaced_stateful_set", "", "", "">>,
   DaemonSet |-> <<"apps_v1", "patch_namespaced_daemon_set", "", "", "">>,
   Job |-> <<"batch_v1", "patch_namespaced_job", "", "", "">>,
   CronJob |-> <<"batch_v1", "patch_namespaced_cron_job", "", "", "">>,
   Rollout |-> <<"custom_objects", "patch_namespaced_custom_object",
                 "argoproj.io", "v1alpha1", "rollouts">>,
   DeploymentConfig |-> <<"custom_objects", "patch_namespaced_custom_object",
                          "apps.openshift.io", "v1", "deploymentconfigs">>,
   StrimziPodSet |-> <<"custom_objects", "patch_namespaced_custom_object",
                       "core.strimzi.io", "v1beta2", "strimzipodsets">>]

\* C9: _patch_workload never retries: a dispatch of a routed kind issues
\* exactly one request, to that kind's endpoint with the caller's patch and
\* the workload's name and namespace, and returns False when the request
\* fails, True when it succeeds.
C9_OneCallNoRetry ==
  \A p \in Procs :
    (PatchedDirectly(p) /\ frame[p].obj.kind \in DOMAIN Route) =>
      /\ Len(CallsBy(p)) <= 1
      /\ \A n \in 1..Len(CallsBy(p)) :
           LET c == CallsBy(p)[n]
           IN /\ <<c.endpoint.api, c.endpoint.method, c.endpoint.group,
                   c.endpoint.version, c.endpoint.plural>> = Route[frame[p].obj.kind]
              /\ c.name = frame[p].obj.name
              /\ c.namespace = frame[p].obj.namespace
              /\ c.body = frame[p].patch
      /\ pc[p] = "done" =>
           /\ Len(CallsBy(p)) = 1
           /\ frame[p].raised = "none"
           /\ frame[p].result = IF frame[p].outcome = "ok" THEN "True" ELSE "False"

C9_Witness ==
  \E p \in Procs :
    /\ PatchedDirectly(p)
    /\ pc[p] = "done"
    /\ frame[p].obj.kind = "Rollout"
    /\ frame[p].outcome = "ApiException"
    /\ frame[p].result = "False"
    /\ Len(CallsBy(p)) = 1

\* what one apply returns and sends, from its own arguments and the outcome
\* of its own request
OwnFormatFails(f) ==
  \/ f.rtype = "cpu" /\ f.obj.requests["cpu"].tag # "num"
  \/ f.rtype = "memory" /\ f.obj.requests["memory"].tag # "num" /\ f.memRaises

OwnResult(f) ==
  IF f.obj.kind # "Deployment" THEN "False"
  ELSE IF OwnFormatFails(f) THEN "False"
  ELSE IF f.dry THEN "True"
  ELSE IF f.outcome = "ok" THEN "True" ELSE "False"

OwnBody(f) ==
  <<[op |-> "replace",
     path |-> "/spec/template/spec/containers/"
                \o ToString(IndexOf(f.obj.containers, f.obj.container))
                \o "/resources/requests/" \o f.rtype,
     value |-> IF f.rtype = "cpu" THEN FormatCpu(f.rec) ELSE FormatResource(f.rec)]>>

\* C10: under every interleaving of the applies in flight, each apply
\* sends at most one request, to its own workload's deployment endpoint and
\* with the patch built from its own arguments, and what it returns is
\* decided by its own arguments and the outcome of its own request.
C10_AppliesIndependent ==
  \A p \in Procs :
    frame[p].op = "apply" =>
      /\ Len(CallsBy(p)) <= 1
      /\ \A n \in 1..Len(CallsBy(p)) :
           /\ CallsBy(p)[n].name = frame[p].obj.name
           /\ CallsBy(p)[n].namespace = frame[p].obj.namespace
           /\ CallsBy(p)[n].endpoint.method = "patch_namespaced_deployment"
           /\ CallsBy(p)[n].body = OwnBody(frame[p])
      /\ pc[p] = "done" => frame[p].result = OwnResult(frame[p])

C10_Witness ==
  \E p, q \in Procs :
    /\ p # q
    /\ AppliedDone(p) /\ AppliedDone(q)
    /\ frame[p].obj.name # frame[q].obj.name
    /\ frame[p].outcome = "ok" /\ frame[p].result = "True"
    /\ frame[q].outcome = "ApiException" /\ frame[q].result = "False"
    /\ Len(apiCalls) >= 2
    /\ apiCalls[1].by = q

====
